---- MODULE Spec2Model ----
(***************************************************************************)
(* The incremental, resumable N-Queens backtracking search engine          *)
(* (SolverWrapper in src/src/main.rs) as a state machine, and the driver    *)
(* that owns it (EightQueensApp).  Spec drives the engine alone, one        *)
(* action per engine operation; AppSpec is the application, one action per  *)
(* handler of the frame update; VariantsSpec applies get_variants to        *)
(* permutations.                                                            *)
(***************************************************************************)
EXTENDS Integers, Sequences, FiniteSets, TLC

\* Largest board size explored; new(n) is called with n in 1..MaxN.
MaxN == 8

\* Largest length of the permutations handed to get_variants.
MaxPermN == 6

\* Number of step() calls the application makes on one unfinished engine
\* before the exploration stops following it; 36 calls finish a search of
\* size 4.
MaxAppSteps == 36

\* Board sizes the application accepts, and the size it starts with.
MinAppN == 4
MaxAppN == 30
DefaultN == 8

\* Values the speed slider is moved to, out of 1..=10.
SpeedChoices == {1, 5, 10}

\* Texts typed into the board-size field.
TextInputs == {<<>>, <<"x">>, <<"3">>, <<"4">>, <<"+", "5">>, <<"3", "0">>, <<"3", "1">>}

VARIABLES
    n,                    \* SolverWrapper.n
    board,                \* SolverWrapper.board : board[r][c] in {0,1}
    solutions,            \* SolverWrapper.solutions : the solutions log
    stack,                \* SolverWrapper.stack : <<row, col>> pairs
    col,                  \* SolverWrapper.col
    row,                  \* SolverWrapper.row
    backtracking,         \* SolverWrapper.backtracking
    finished,             \* SolverWrapper.finished
    last_solution_board,  \* Option<board>: <<>> is None, <<b>> is Some(b)
    unique_solutions,     \* SolverWrapper.unique_solutions : row vectors
    ret,                  \* value returned by the last step() call
    op,                   \* the engine operation called last
    true_calls,           \* number of step() calls that returned true
    app_n,                \* EightQueensApp.n
    n_input,              \* EightQueensApp.n_input : a sequence of characters
    speed,                \* EightQueensApp.speed
    paused,               \* EightQueensApp.paused
    auto_play,            \* EightQueensApp.auto_play
    finding_all,          \* EightQueensApp.finding_all
    pc,                   \* position of the frame update: "idle" between handlers
    calls,                \* step() calls the application made on this engine
    sol_in,               \* argument handed to get_variants
    variants_out          \* <<>> or <<result of get_variants(sol_in)>>

engine == <<n, board, solutions, stack, col, row, backtracking, finished,
            last_solution_board, unique_solutions>>
driver == <<app_n, n_input, speed, paused, auto_play, finding_all, pc, calls>>
probe == <<sol_in, variants_out>>
vars == <<n, board, solutions, stack, col, row, backtracking, finished,
          last_solution_board, unique_solutions, ret, op, true_calls,
          app_n, n_input, speed, paused, auto_play, finding_all, pc, calls,
          sol_in, variants_out>>

Idx == 0 .. (n - 1)

\* vec![vec![0; n]; n]
EmptyBoard(m) == [r \in 0 .. (m - 1) |-> [c \in 0 .. (m - 1) |-> 0]]

Min(a, b) == IF a < b THEN a ELSE b

----------------------------------------------------------------------------
\* is_safe without the downward-left diagonal scan.
is_safe_no_down_diagonal(b, r, c) ==
    /\ \A i \in 0 .. (c - 1) : b[r][i] # 1
    /\ \A k \in 0 .. (Min(r, c) - 1) : b[r - 1 - k][c - 1 - k] # 1

\* is_safe without the upward-left diagonal scan.
is_safe_no_up_diagonal(b, r, c) ==
    /\ \A i \in 0 .. (c - 1) : b[r][i] # 1
    /\ \A k \in 0 .. (Min(n - r - 1, c) - 1) : b[r + 1 + k][c - 1 - k] # 1

\* is_safe: three scans over the columns left of col.
is_safe(b, r, c) ==
    /\ \A i \in 0 .. (c - 1) : b[r][i] # 1
    /\ \A k \in 0 .. (Min(r, c) - 1) : b[r - 1 - k][c - 1 - k] # 1
    /\ \A k \in 0 .. (Min(n - r - 1, c) - 1) : b[r + 1 + k][c - 1 - k] # 1

\* The forward scan restarting at row 0 instead of the cursor row.
RECURSIVE scan_from_zero_at(_, _, _)
scan_from_zero_at(b, r, c) ==
    IF r < n
    THEN IF is_safe(b, r, c) THEN r ELSE scan_from_zero_at(b, r + 1, c)
    ELSE r

scan_from_zero(b, r, c) == scan_from_zero_at(b, 0, c)

\* The forward scan `while self.row < self.n`: the row the loop stops at,
\* either the first safe row at or above r, or the value row has when the
\* loop condition fails.
RECURSIVE scan(_, _, _)
scan(b, r, c) ==
    IF r < n
    THEN IF is_safe(b, r, c) THEN r ELSE scan(b, r + 1, c)
    ELSE r

----------------------------------------------------------------------------
\* get_variants and its closures.  A solution vector is a sequence of
\* length n whose (x+1)-th element is the row of the queen in column x.
coords(sol) == [i \in 1 .. Len(sol) |-> <<i - 1, sol[i]>>]

RECURSIVE to_sol_from(_, _, _)
to_sol_from(pts, k, v) ==
    IF k > Len(pts) THEN v
    ELSE to_sol_from(pts, k + 1, [v EXCEPT ![pts[k][1] + 1] = pts[k][2]])

to_sol(pts) == to_sol_from(pts, 1, [i \in 1 .. Len(pts) |-> 0])

flip_h(pts) == [i \in 1 .. Len(pts) |-> <<Len(pts) - 1 - pts[i][1], pts[i][2]>>]

\* A transposition <<y, x>> in place of the rotation.
rotate90_transpose(pts) == [i \in 1 .. Len(pts) |-> <<pts[i][2], pts[i][1]>>]

rotate90(pts) == [i \in 1 .. Len(pts) |-> <<pts[i][2], Len(pts) - 1 - pts[i][1]>>]

\* The loop pushing the four rotations only, without their flips.
RECURSIVE variants_loop_rotations_only(_, _, _)
variants_loop_rotations_only(curr, iter, variants) ==
    IF iter = 4 THEN variants
    ELSE CHOOSE out \in
            {variants_loop_rotations_only(nxt, iter + 1, acc) :
                nxt \in {rotate90(curr)},
                acc \in {variants \o <<to_sol(curr)>>}} : TRUE

\* The `for _ in 0..4` loop: push curr and its horizontal flip, then rotate.
\* The loop state of the next iteration is bound to its value.
RECURSIVE variants_loop(_, _, _)
variants_loop(curr, iter, variants) ==
    IF iter = 4 THEN variants
    ELSE CHOOSE out \in
            {variants_loop(nxt, iter + 1, acc) :
                nxt \in {rotate90(curr)},
                acc \in {variants \o <<to_sol(curr), to_sol(flip_h(curr))>>}} : TRUE

get_variants(sol) == CHOOSE out \in {variants_loop(c, 0, <<>>) : c \in {coords(sol)}} : TRUE

\* self.unique_solutions.contains(&v)
contains(u, v) == \E i \in 1 .. Len(u) : u[i] = v

\* is_new_unique comparing the solution itself only, not its variants.
is_new_unique_identity_only(u, sol) == ~contains(u, sol)

is_new_unique(u, sol) ==
    \A variants \in {get_variants(sol)} :
        \A i \in 1 .. Len(variants) : ~contains(u, variants[i])

\* The cells is_safe(row, col) may read: the row to the left, and the two
\* zipped diagonals towards column 0.
is_safe_reads(r, c) ==
    {<<r, i>> : i \in 0 .. (c - 1)}
    \cup {<<r - k, c - k>> : k \in 1 .. Min(r, c)}
    \cup {<<r + k, c - k>> : k \in 1 .. Min(n - 1 - r, c)}

----------------------------------------------------------------------------
\* save_solution: the row vector, the text of the entry, and the update.
\* (b'a' + c as u8) as char, for c in 0..29
FileChars == <<"a", "b", "c", "d", "e", "f", "g", "h", "i", "j",
               "k", "l", "m", "n", "o", "p", "q", "r", "s", "t",
               "u", "v", "w", "x", "y", "z", "{", "|", "}", "~">>

\* (0..n).find(|&r| board[r][c] == 1): <<>> when the column is empty.
find_row(b, c) ==
    IF \E r \in Idx : b[r][c] = 1
    THEN <<CHOOSE r \in Idx : b[r][c] = 1 /\ \A q \in 0 .. (r - 1) : b[q][c] # 1>>
    ELSE <<>>

\* queen_rows storing the 1-based rank instead of the row index.
queen_rows_one_based(b) ==
    [i \in 1 .. n |-> IF find_row(b, i - 1) = <<>> THEN 0 ELSE find_row(b, i - 1)[1] + 1]

queen_rows(b) ==
    [i \in 1 .. n |-> IF find_row(b, i - 1) = <<>> THEN 0 ELSE find_row(b, i - 1)[1]]

\* format!("{}{}", file, rank): the file letter and the 1-based rank.
RECURSIVE parts_from(_, _)
parts_from(b, c) ==
    IF c >= n THEN <<>>
    ELSE (IF find_row(b, c) = <<>> THEN <<>>
          ELSE << <<FileChars[c + 1], find_row(b, c)[1] + 1>> >>)
         \o parts_from(b, c + 1)

\* A log entry: the "(Sym) " prefix as a flag, and the joined parts.
sol_entry(b, u) == [sym |-> ~is_new_unique(u, queen_rows(b)), parts |-> parts_from(b, 0)]

\* save_solution keeping the snapshot only for a solution that is new.
save_solution_snapshot_if_new(b) ==
    /\ last_solution_board' = IF is_new_unique(unique_solutions, queen_rows(b))
                              THEN <<b>> ELSE last_solution_board
    /\ unique_solutions' = Append(unique_solutions, queen_rows(b))
    /\ solutions' = Append(solutions, sol_entry(b, unique_solutions))

\* save_solution adding only a new solution to the unique-solution set.
save_solution_unique_if_new(b) ==
    /\ last_solution_board' = <<b>>
    /\ unique_solutions' = IF is_new_unique(unique_solutions, queen_rows(b))
                           THEN Append(unique_solutions, queen_rows(b))
                           ELSE unique_solutions
    /\ solutions' = Append(solutions, sol_entry(b, unique_solutions))

\* save_solution putting the entry at the head of the log.
save_solution_prepends(b) ==
    /\ last_solution_board' = <<b>>
    /\ unique_solutions' = Append(unique_solutions, queen_rows(b))
    /\ solutions' = <<sol_entry(b, unique_solutions)>> \o solutions

save_solution(b) ==
    /\ last_solution_board' = <<b>>
    /\ unique_solutions' = Append(unique_solutions, queen_rows(b))
    /\ solutions' = Append(solutions, sol_entry(b, unique_solutions))

----------------------------------------------------------------------------
\* usize::to_string and str::parse::<usize> on texts of one-character strings.
Digits == <<"0", "1", "2", "3", "4", "5", "6", "7", "8", "9">>

IsDigit(ch) == \E i \in 1 .. 10 : Digits[i] = ch

DigitValue(ch) == (CHOOSE i \in 1 .. 10 : Digits[i] = ch) - 1

RECURSIVE to_string(_)
to_string(k) ==
    IF k < 10 THEN <<Digits[k + 1]>>
    ELSE Append(to_string(k \div 10), Digits[(k % 10) + 1])

\* The digits of t folded from the left; <<>> is Err, <<v>> is Ok(v).
RECURSIVE parse_digits(_, _, _)
parse_digits(t, k, acc) ==
    IF k > Len(t) THEN <<acc>>
    ELSE IF IsDigit(t[k]) THEN parse_digits(t, k + 1, acc * 10 + DigitValue(t[k]))
    ELSE <<>>

\* An optional leading "+", then at least one digit.
parse_usize(t) ==
    LET d == IF t # <<>> /\ t[1] = "+" THEN SubSeq(t, 2, Len(t)) ELSE t
    IN  IF d = <<>> THEN <<>> ELSE parse_digits(d, 1, 0)

\* The driver at rest, as EightQueensApp::default leaves it, holding an
\* engine of size m.
DriverAtRest(m) ==
    /\ app_n = m
    /\ n_input = to_string(m)
    /\ speed = 5
    /\ paused = TRUE
    /\ auto_play = FALSE
    /\ finding_all = FALSE
    /\ pc = "idle"
    /\ calls = 0

\* No get_variants call under observation.
NoProbe ==
    /\ sol_in = <<>>
    /\ variants_out = <<>>

\* SolverWrapper::new(n)
Init ==
    /\ n \in 1 .. MaxN
    /\ board = EmptyBoard(n)
    /\ solutions = <<>>
    /\ stack = <<>>
    /\ col = 0
    /\ row = 0
    /\ backtracking = FALSE
    /\ finished = FALSE
    /\ last_solution_board = <<>>
    /\ unique_solutions = <<>>
    /\ ret = FALSE
    /\ op = "new"
    /\ true_calls = 0
    /\ DriverAtRest(n)
    /\ NoProbe

\* The early return reporting a solution on a finished engine.
step_finished_returns_true ==
    /\ ret' = TRUE
    /\ UNCHANGED engine

\* `if self.finished { return false; }`
step_finished ==
    /\ ret' = FALSE
    /\ UNCHANGED engine

\* The exhausted arm returning without setting the finished flag.
step_exhausted_no_flag ==
    /\ ret' = FALSE
    /\ UNCHANGED engine

\* `if self.col == 0 && self.row >= self.n` and the empty-stack arm of the pop.
step_exhausted ==
    /\ finished' = TRUE
    /\ ret' = FALSE
    /\ UNCHANGED <<n, board, solutions, stack, col, row, backtracking,
                   last_solution_board, unique_solutions>>

\* The search resuming at the popped row itself.
next_row_same(r) == r

\* The search resuming two rows above the popped row.
next_row_skips_one(r) == r + 2

\* Row at which the search resumes after popping row r.
next_row(r) == r + 1

\* step_forward whose failed scan does not switch to Backtrack mode.
step_forward_stays_forward(b, s, c, r) ==
    IF c >= n
    THEN /\ save_solution(b)
         /\ backtracking' = TRUE
         /\ ret' = TRUE
         /\ board' = b
         /\ stack' = s
         /\ col' = c
         /\ row' = r
         /\ UNCHANGED <<n, finished>>
    ELSE LET sr == scan(b, r, c)
         IN  IF sr < n
             THEN /\ board' = [b EXCEPT ![sr][c] = 1]
                  /\ stack' = Append(s, <<sr, c>>)
                  /\ col' = c + 1
                  /\ row' = 0
                  /\ backtracking' = FALSE
                  /\ ret' = FALSE
                  /\ UNCHANGED <<n, solutions, finished, last_solution_board,
                                 unique_solutions>>
             ELSE /\ board' = b
                  /\ stack' = s
                  /\ col' = c
                  /\ row' = sr
                  /\ backtracking' = FALSE
                  /\ ret' = FALSE
                  /\ UNCHANGED <<n, solutions, finished, last_solution_board,
                                 unique_solutions>>

\* The rest of step() once the backtrack block is done, from board b,
\* stack s, column c and row r (the values after an optional pop).
step_forward(b, s, c, r) ==
    IF c >= n
    THEN /\ save_solution(b)
         /\ backtracking' = TRUE
         /\ ret' = TRUE
         /\ board' = b
         /\ stack' = s
         /\ col' = c
         /\ row' = r
         /\ UNCHANGED <<n, finished>>
    ELSE LET sr == scan(b, r, c)
         IN  IF sr < n
             THEN /\ board' = [b EXCEPT ![sr][c] = 1]
                  /\ stack' = Append(s, <<sr, c>>)
                  /\ col' = c + 1
                  /\ row' = 0
                  /\ backtracking' = FALSE
                  /\ ret' = FALSE
                  /\ UNCHANGED <<n, solutions, finished, last_solution_board,
                                 unique_solutions>>
             ELSE /\ board' = b
                  /\ stack' = s
                  /\ col' = c
                  /\ row' = sr
                  /\ backtracking' = TRUE
                  /\ ret' = FALSE
                  /\ UNCHANGED <<n, solutions, finished, last_solution_board,
                                 unique_solutions>>

\* The pop arm clearing board[col - 1][r] instead of board[r][col - 1].
step_pop_wrong_cell ==
    LET r == stack[Len(stack)][1]
    IN  step_forward([board EXCEPT ![col - 1][r] = 0],
                     SubSeq(stack, 1, Len(stack) - 1),
                     col - 1,
                     next_row(r))

\* The pop arm without `self.col -= 1`.
step_pop_keeps_col ==
    LET r == stack[Len(stack)][1]
    IN  step_forward([board EXCEPT ![r][col - 1] = 0],
                     SubSeq(stack, 1, Len(stack) - 1),
                     col,
                     next_row(r))

\* The pop arm declaring the search exhausted as soon as it pops the queen
\* of column 0, without trying the remaining rows of that column.
step_pop_finishes_at_column_zero ==
    LET r == stack[Len(stack)][1]
    IN  IF Len(stack) = 1
        THEN /\ board' = [board EXCEPT ![r][col - 1] = 0]
             /\ stack' = <<>>
             /\ col' = col - 1
             /\ row' = next_row(r)
             /\ finished' = TRUE
             /\ ret' = FALSE
             /\ UNCHANGED <<n, solutions, backtracking, last_solution_board,
                            unique_solutions>>
        ELSE step_forward([board EXCEPT ![r][col - 1] = 0],
                          SubSeq(stack, 1, Len(stack) - 1),
                          col - 1,
                          next_row(r))

\* The pop arm: remove the queen on top of the stack, then fall through.
step_pop ==
    LET r == stack[Len(stack)][1]
    IN  step_forward([board EXCEPT ![r][col - 1] = 0],
                     SubSeq(stack, 1, Len(stack) - 1),
                     col - 1,
                     next_row(r))

\* SolverWrapper::step
step ==
    /\ op' = "step"
    /\ IF finished THEN step_finished
       ELSE IF backtracking
            THEN IF col = 0 /\ row >= n THEN step_exhausted
                 ELSE IF stack # <<>> THEN step_pop
                 ELSE step_exhausted
            ELSE step_forward(board, stack, col, row)
    /\ true_calls' = IF ret' THEN true_calls + 1 ELSE true_calls

\* restore_last_solution() moving the snapshot out instead of cloning it.
restore_last_solution_takes_snapshot ==
    /\ op' = "restore"
    /\ board' = IF last_solution_board # <<>> THEN last_solution_board[1] ELSE board
    /\ last_solution_board' = <<>>
    /\ UNCHANGED <<n, solutions, stack, col, row, backtracking, finished,
                   unique_solutions, ret, true_calls>>

\* SolverWrapper::restore_last_solution
restore_last_solution ==
    /\ op' = "restore"
    /\ board' = IF last_solution_board # <<>> THEN last_solution_board[1] ELSE board
    /\ UNCHANGED <<n, solutions, stack, col, row, backtracking, finished,
                   last_solution_board, unique_solutions, ret, true_calls>>

\* The only call of restore_last_solution: the frame update repaints the
\* board once the search has finished (`if self.solver.finished`).
Restore ==
    /\ finished
    /\ restore_last_solution
    /\ UNCHANGED <<driver, probe>>

\* A call of step() by a caller that is not modelled further.
CallStep ==
    /\ step
    /\ UNCHANGED <<driver, probe>>

Next == CallStep \/ Restore

Spec == Init /\ [][Next]_vars

\* A driver that keeps calling step().
LiveSpec == Init /\ [][Next]_vars /\ WF_vars(CallStep)

----------------------------------------------------------------------------
\* The application: EightQueensApp::default and the handlers of update().

\* self.solver = SolverWrapper::new(m), in the handler named by label.
new_solver(m, label) ==
    /\ n' = m
    /\ board' = EmptyBoard(m)
    /\ solutions' = <<>>
    /\ stack' = <<>>
    /\ col' = 0
    /\ row' = 0
    /\ backtracking' = FALSE
    /\ finished' = FALSE
    /\ last_solution_board' = <<>>
    /\ unique_solutions' = <<>>
    /\ ret' = FALSE
    /\ op' = label
    /\ true_calls' = 0
    /\ calls' = 0

\* A handler that does not touch the solver.
solver_untouched == UNCHANGED <<engine, ret, op, true_calls, calls>>

\* A step() call of the application, counted while the engine is unfinished.
app_step ==
    /\ finished \/ calls < MaxAppSteps
    /\ step
    /\ calls' = IF finished THEN calls ELSE calls + 1

\* EightQueensApp::default
AppInit ==
    /\ n = DefaultN
    /\ board = EmptyBoard(n)
    /\ solutions = <<>>
    /\ stack = <<>>
    /\ col = 0
    /\ row = 0
    /\ backtracking = FALSE
    /\ finished = FALSE
    /\ last_solution_board = <<>>
    /\ unique_solutions = <<>>
    /\ ret = FALSE
    /\ op = "new"
    /\ true_calls = 0
    /\ DriverAtRest(DefaultN)
    /\ NoProbe

\* Stepping logic of update() when the speed is below 10, or when the
\* search plays without auto_play: one step() once the delay has elapsed.
FrameStep ==
    /\ pc = "idle"
    /\ ~finished
    /\ (auto_play /\ speed # 10) \/ (~auto_play /\ ~paused)
    /\ app_step
    /\ IF ret' /\ ~finding_all
       THEN paused' = TRUE /\ auto_play' = FALSE
       ELSE UNCHANGED <<paused, auto_play>>
    /\ UNCHANGED <<app_n, n_input, speed, finding_all, pc, probe>>

\* One iteration of the 16 ms loop of update() at speed 10 with auto_play.
\* The loop ends on a solution outside find-all, on finished, or when the
\* time is up.
Frame10Iter ==
    /\ \/ pc = "idle" /\ auto_play /\ speed = 10
       \/ pc = "frame10"
    /\ ~finished
    /\ app_step
    /\ IF ret' /\ ~finding_all
       THEN paused' = TRUE /\ auto_play' = FALSE /\ pc' = "frame10_end"
       ELSE /\ UNCHANGED <<paused, auto_play>>
            /\ IF finished' THEN pc' = "frame10_end"
               ELSE pc' \in {"frame10", "frame10_end"}
    /\ UNCHANGED <<app_n, n_input, speed, finding_all, probe>>

\* After the loop: `if self.solver.finished { restore_last_solution() }`.
Frame10End ==
    /\ pc = "frame10_end"
    /\ IF finished THEN restore_last_solution
       ELSE UNCHANGED <<engine, ret, op, true_calls>>
    /\ pc' = "idle"
    /\ UNCHANGED <<app_n, n_input, speed, paused, auto_play, finding_all, calls, probe>>

\* The -/+ buttons.
MinusButton ==
    /\ pc = "idle"
    /\ IF app_n > MinAppN
       THEN /\ app_n' = app_n - 1
            /\ n_input' = to_string(app_n - 1)
            /\ new_solver(app_n - 1, "new_size")
            /\ paused' = TRUE
            /\ auto_play' = FALSE
            /\ UNCHANGED <<speed, finding_all, pc, probe>>
       ELSE UNCHANGED vars

PlusButton ==
    /\ pc = "idle"
    /\ IF app_n < MaxAppN
       THEN /\ app_n' = app_n + 1
            /\ n_input' = to_string(app_n + 1)
            /\ new_solver(app_n + 1, "new_size")
            /\ paused' = TRUE
            /\ auto_play' = FALSE
            /\ UNCHANGED <<speed, finding_all, pc, probe>>
       ELSE UNCHANGED vars

\* The speed slider.
SpeedSlider ==
    /\ pc = "idle"
    /\ \E v \in SpeedChoices : speed' = v
    /\ solver_untouched
    /\ UNCHANGED <<app_n, n_input, paused, auto_play, finding_all, pc, probe>>

\* A size that differs from the current one by one digit too many.
size_accepted_up_to_31(v) == v >= MinAppN /\ v <= MaxAppN + 1 /\ v # app_n

\* `new_n >= 4 && new_n <= 30 && new_n != self.n`
size_accepted(v) == v >= MinAppN /\ v <= MaxAppN /\ v # app_n

\* The board-size text field changed to the text t.
TextChanged ==
    /\ pc = "idle"
    /\ \E t \in TextInputs :
        /\ t # n_input
        /\ n_input' = t
        /\ IF parse_usize(t) # <<>> /\ size_accepted(parse_usize(t)[1])
           THEN /\ app_n' = parse_usize(t)[1]
                /\ new_solver(parse_usize(t)[1], "new_size")
                /\ paused' = TRUE
                /\ auto_play' = FALSE
           ELSE /\ solver_untouched
                /\ UNCHANGED <<app_n, paused, auto_play>>
    /\ UNCHANGED <<speed, finding_all, pc, probe>>

\* The text field lost focus, or Enter was pressed in it.
TextCommit ==
    /\ pc = "idle"
    /\ n_input' = to_string(app_n)
    /\ solver_untouched
    /\ UNCHANGED <<app_n, speed, paused, auto_play, finding_all, pc, probe>>

\* The play button.
PlayButton ==
    /\ pc = "idle"
    /\ IF finished THEN new_solver(app_n, "new_play") ELSE solver_untouched
    /\ paused' = FALSE
    /\ auto_play' = FALSE
    /\ finding_all' = FALSE
    /\ UNCHANGED <<app_n, n_input, speed, pc, probe>>

\* The single-step button.
SingleStepButton ==
    /\ pc = "idle"
    /\ app_step
    /\ paused' = TRUE
    /\ UNCHANGED <<app_n, n_input, speed, auto_play, finding_all, pc, probe>>

\* A fast-forward loop that leaves after its first step() call.
FastForwardIter_single_call ==
    /\ pc \in {"idle", "ff"}
    /\ ~finished
    /\ app_step
    /\ pc' = "ff_end"
    /\ UNCHANGED <<app_n, n_input, speed, paused, auto_play, finding_all, probe>>

\* One iteration of the loop of the fast-forward button:
\* `while !finished { if step() { break; } }`.
FastForwardIter ==
    /\ pc \in {"idle", "ff"}
    /\ ~finished
    /\ app_step
    /\ pc' = IF ret' \/ finished' THEN "ff_end" ELSE "ff"
    /\ UNCHANGED <<app_n, n_input, speed, paused, auto_play, finding_all, probe>>

\* After the loop of the fast-forward button (which does not run on a
\* finished engine): `paused = true; solver.backtracking = true`.
FastForwardEnd ==
    /\ pc = "ff_end" \/ (pc = "idle" /\ finished)
    /\ paused' = TRUE
    /\ backtracking' = TRUE
    /\ pc' = "idle"
    /\ UNCHANGED <<n, board, solutions, stack, col, row, finished,
                   last_solution_board, unique_solutions, ret, op, true_calls,
                   app_n, n_input, speed, auto_play, finding_all, calls, probe>>

\* The find-all button.
FindAllButton ==
    /\ pc = "idle"
    /\ auto_play' = TRUE
    /\ finding_all' = TRUE
    /\ speed' = 10
    /\ paused' = FALSE
    /\ solver_untouched
    /\ UNCHANGED <<app_n, n_input, pc, probe>>

\* A stop button that only ever pauses.
StopButton_pause_only ==
    /\ pc = "idle"
    /\ solver_untouched
    /\ paused' = TRUE
    /\ UNCHANGED <<app_n, n_input, speed, auto_play, finding_all, pc, probe>>

\* The stop button.
StopButton ==
    /\ pc = "idle"
    /\ IF ~paused /\ ~finished
       THEN solver_untouched
       ELSE new_solver(app_n, "new_stop")
    /\ paused' = TRUE
    /\ UNCHANGED <<app_n, n_input, speed, auto_play, finding_all, pc, probe>>

AppNext ==
    \/ FrameStep
    \/ Frame10Iter
    \/ Frame10End
    \/ MinusButton
    \/ PlusButton
    \/ SpeedSlider
    \/ TextChanged
    \/ TextCommit
    \/ PlayButton
    \/ SingleStepButton
    \/ FastForwardIter
    \/ FastForwardEnd
    \/ FindAllButton
    \/ StopButton

AppSpec == AppInit /\ [][AppNext]_vars

----------------------------------------------------------------------------
\* get_variants as a function of its argument: every permutation of
\* 0..m-1, m in 1..MaxPermN, is handed to it once.
PermutationsOf(m) ==
    {p \in [1 .. m -> 0 .. (m - 1)] : \A i, j \in 1 .. m : p[i] = p[j] => i = j}

VariantsInit ==
    /\ sol_in \in UNION {PermutationsOf(m) : m \in 1 .. MaxPermN}
    /\ variants_out = <<>>
    /\ n = Len(sol_in)
    /\ board = EmptyBoard(n)
    /\ solutions = <<>>
    /\ stack = <<>>
    /\ col = 0
    /\ row = 0
    /\ backtracking = FALSE
    /\ finished = FALSE
    /\ last_solution_board = <<>>
    /\ unique_solutions = <<>>
    /\ ret = FALSE
    /\ op = "new"
    /\ true_calls = 0
    /\ DriverAtRest(n)

CallGetVariants ==
    /\ variants_out = <<>>
    /\ variants_out' = <<get_variants(sol_in)>>
    /\ UNCHANGED <<engine, ret, op, true_calls, driver, sol_in>>

VariantsNext == CallGetVariants

VariantsSpec == VariantsInit /\ [][VariantsNext]_vars

----------------------------------------------------------------------------
\* Reference notions the properties are stated against.

\* Cells of the board that hold a queen, as <<row, col>> pairs.
Queens(b) == {rc \in Idx \X Idx : b[rc[1]][rc[2]] = 1}

\* Two distinct cells on one row, one column or one diagonal.
Attack(p, q) ==
    /\ p # q
    /\ \/ p[1] = q[1]
       \/ p[2] = q[2]
       \/ p[1] - q[1] = p[2] - q[2]
       \/ p[1] - q[1] = q[2] - p[2]

NonAttacking(b) == \A p, q \in Queens(b) : ~Attack(p, q)

\* All placements of k mutually non-attacking queens in columns 0..k-1 of
\* an m x m board, as row vectors.
RECURSIVE Placements(_, _)
Placements(m, k) ==
    IF k = 0 THEN {<<>>}
    ELSE {Append(p, r) : <<p, r>> \in
            {pr \in Placements(m, k - 1) \X (0 .. (m - 1)) :
                \A i \in 1 .. (k - 1) :
                    ~Attack(<<pr[1][i], i - 1>>, <<pr[2], k - 1>>)}}

AllSolutions(m) == Placements(m, m)

\* Number of N-Queens solutions for N = 1..10.
KnownCount == <<1, 0, 0, 2, 10, 4, 40, 92, 352, 724>>

\* The row vector a log entry describes: file letter i names column i-1,
\* the rank is the row plus one.
EntryColumn(part) == CHOOSE c \in 0 .. (Len(FileChars) - 1) : FileChars[c + 1] = part[1]

EntryPerm(e) ==
    [i \in 1 .. Len(e.parts) |->
        LET k == CHOOSE j \in 1 .. Len(e.parts) : EntryColumn(e.parts[j]) = i - 1
        IN  e.parts[k][2] - 1]

LogPerms == {EntryPerm(solutions[i]) : i \in 1 .. Len(solutions)}

----------------------------------------------------------------------------
\* C1: once the search has finished, the row-permutations in the solutions
\* log are exactly the N-Queens solutions of the board, each recorded once;
\* the log length is the known count for N, and so is the number of step()
\* calls that returned true.
C1_ExactEnumeration ==
    finished =>
        /\ LogPerms = AllSolutions(n)
        /\ Cardinality(LogPerms) = Len(solutions)
        /\ Len(solutions) = KnownCount[n]
        /\ true_calls = KnownCount[n]

C1_Witness == finished /\ n = 8 /\ Len(solutions) = 92 /\ true_calls = 92

\* C2: a driver that keeps calling step() eventually sees finished = true.
C2_Terminates == <>finished

C2_Witness == finished /\ op = "step" /\ n >= 4 /\ Len(solutions) >= 2

\* C3: between engine calls no two queens on the board share a row, a
\* column or a diagonal.
C3_NonAttack == NonAttacking(board)

C3_Witness ==
    /\ op = "restore"
    /\ Cardinality(Queens(board)) = n
    /\ n >= 4
    /\ stack = <<>>

\* C4 as stated: columns at or right of the cursor column are empty, each
\* column left of it holds exactly one queen, and the occupied cells are
\* exactly the pairs on the placement stack.
StackMirrorsBoard ==
    /\ \A c \in Idx : c >= col => ~\E r \in Idx : board[r][c] = 1
    /\ \A c \in Idx : c < col => Cardinality({r \in Idx : board[r][c] = 1}) = 1
    /\ Queens(board) = {stack[i] : i \in 1 .. Len(stack)}

C4_AsStated == n >= MinAppN => StackMirrorsBoard

\* C4 (amended): the board mirrors the placement stack at every paused
\* moment, except once restore_last_solution() has repainted a finished
\* engine: then the board is the retained snapshot while the column is 0
\* and the stack is empty.
C4_StackMirrorsBoardUntilRestore ==
    \/ StackMirrorsBoard
    \/ /\ finished
       /\ col = 0
       /\ stack = <<>>
       /\ last_solution_board # <<>>
       /\ board = last_solution_board[1]

C4_Witness ==
    /\ op = "step"
    /\ backtracking
    /\ ~finished
    /\ Len(stack) >= 2
    /\ Len(stack) < n
    /\ Len(solutions) >= 1

\* C5: the placement stack is as long as the cursor column, and its i-th
\* entry (0-based) is the queen of column i.
C5_StackLenIsColumn ==
    /\ Len(stack) = col
    /\ \A i \in 1 .. Len(stack) : stack[i][2] = i - 1

C5_Witness == Len(stack) = n /\ col = n /\ n >= 4 /\ op = "step"

\* Queens a call takes off the board, and queens it puts on it.
Removed == Queens(board) \ Queens(board')
Placed == Queens(board') \ Queens(board)

\* C6 as stated: a step() call changes at most one cell of the board and
\* never both removes and places a queen.
C6_AsStated ==
    [][(n >= MinAppN /\ step) =>
            /\ Cardinality(Removed \cup Placed) <= 1
            /\ ~(Removed # {} /\ Placed # {})]_vars

\* C6 (amended): a step() call removes at most one queen, places at most
\* one queen and records at most one solution.  It removes a queen exactly
\* when it is entered in Backtrack mode with a non-empty stack before the
\* search is exhausted, the queen being the top of the stack, and it goes on
\* to the forward scan in the same call: a queen it then places is in the
\* column of the removed one, in a higher row.  A call that records a
\* solution changes no cell.
C6_OneRemovalThenOnePlacement ==
    [][step =>
        /\ Cardinality(Removed) <= 1
        /\ Cardinality(Placed) <= 1
        /\ Len(solutions') \in {Len(solutions), Len(solutions) + 1}
        /\ Len(solutions') # Len(solutions) => board' = board
        /\ IF ~finished /\ backtracking /\ stack # <<>> /\ ~(col = 0 /\ row >= n)
           THEN Removed = {stack[Len(stack)]}
           ELSE Removed = {}
        /\ \A p \in Removed : \A q \in Placed : q[2] = p[2] /\ q[1] > p[1]
      ]_vars

C6_Witness == n >= 4 /\ op = "step" /\ col = 1 /\ stack = << <<1, 0>> >>

\* C7: once finished, step() returns false and changes no engine field, and
\* no engine operation makes finished false again.
C7_FinishedIsTerminal ==
    [][/\ finished => finished'
       /\ (finished /\ step) => (ret' = FALSE /\ UNCHANGED engine)]_vars

C7_Witness ==
    /\ finished
    /\ op = "step"
    /\ ret = FALSE
    /\ last_solution_board # <<>>
    /\ board = last_solution_board[1]

IsPermutation(v) ==
    /\ Len(v) = n
    /\ \A k \in Idx : \E i \in 1 .. n : v[i] = k

\* C8: step() returns true exactly in the calls that append one entry to
\* the solutions log, which are the calls entered in Forward mode with the
\* column equal to N; the board then holds N mutually non-attacking queens,
\* one per column, the recorded row vector is a permutation of 0..N-1
\* describing that board, and the call leaves the engine in Backtrack mode
\* with the board unchanged.
C8_TrueIffRecorded ==
    [][step =>
        /\ ret' = TRUE <=> Len(solutions') = Len(solutions) + 1
        /\ Len(solutions') # Len(solutions) <=> Len(solutions') = Len(solutions) + 1
        /\ ret' = TRUE <=> (~backtracking /\ col = n)
        /\ ret' = TRUE =>
            /\ SubSeq(solutions', 1, Len(solutions)) = solutions
            /\ Cardinality(Queens(board)) = n
            /\ \A c \in Idx : \E r \in Idx : board[r][c] = 1
            /\ NonAttacking(board)
            /\ IsPermutation(unique_solutions'[Len(unique_solutions')])
            /\ \A c \in Idx : board[unique_solutions'[Len(unique_solutions')][c + 1]][c] = 1
            /\ EntryPerm(solutions'[Len(solutions')]) = unique_solutions'[Len(unique_solutions')]
            /\ backtracking'
            /\ board' = board
      ]_vars

C8_Witness ==
    /\ ret = TRUE
    /\ op = "step"
    /\ backtracking
    /\ col = n
    /\ Len(solutions) >= 2

\* The 8 symmetries of the m x m square acting on a cell <<x, y>>.
D8 == 1 .. 8

Sym(t, m, x, y) ==
    CASE t = 1 -> <<x, y>>
      [] t = 2 -> <<y, m - 1 - x>>
      [] t = 3 -> <<m - 1 - x, m - 1 - y>>
      [] t = 4 -> <<m - 1 - y, x>>
      [] t = 5 -> <<m - 1 - x, y>>
      [] t = 6 -> <<x, m - 1 - y>>
      [] t = 7 -> <<y, x>>
      [] t = 8 -> <<m - 1 - y, m - 1 - x>>

\* The cells <<column, row>> of a row vector, and its 8 images.
Cells(p) == {<<i - 1, p[i]>> : i \in 1 .. Len(p)}

Orbit(p) == {{Sym(t, Len(p), xy[1], xy[2]) : xy \in Cells(p)} : t \in D8}

\* Number of classes of N-Queens solutions under D8, for N = 1..10.
KnownClasses == <<1, 0, 0, 1, 2, 1, 6, 12, 46, 92>>

\* Entry i carries the "(Sym)" tag exactly when an earlier entry is one of
\* its dihedral images.
TagCorrect(i) ==
    \A orb \in {Orbit(EntryPerm(solutions[i]))} :
        solutions[i].sym <=>
            \E j \in 1 .. (i - 1) : Cells(EntryPerm(solutions[j])) \in orb

Untagged == {i \in 1 .. Len(solutions) : ~solutions[i].sym}

\* C9: a recorded solution is tagged "(Sym)" iff a solution recorded earlier
\* is one of its 8 dihedral images; after exhaustive search the untagged
\* entries are one per symmetry class.
C9_SymTagIffEarlierImage ==
    /\ (op = "step" /\ ret) => TagCorrect(Len(solutions))
    /\ finished =>
        /\ \A i \in 1 .. Len(solutions) : TagCorrect(i)
        /\ Cardinality(Untagged) = Cardinality({Orbit(p) : p \in AllSolutions(n)})
        /\ Cardinality(Untagged) = KnownClasses[n]

C9_Witness ==
    /\ finished
    /\ n = 8
    /\ Cardinality(Untagged) = 12
    /\ Len(solutions) - Cardinality(Untagged) = 80

\* C10: for N = 4 the exhaustive search records [1,3,0,2] and then
\* [2,0,3,1], one of them canonical and the other tagged as duplicate.
C10_FourQueens ==
    (n = 4 /\ finished) =>
        /\ Len(solutions) = 2
        /\ EntryPerm(solutions[1]) = <<1, 3, 0, 2>>
        /\ EntryPerm(solutions[2]) = <<2, 0, 3, 1>>
        /\ unique_solutions = << <<1, 3, 0, 2>>, <<2, 0, 3, 1>> >>
        /\ Cardinality(Untagged) = 1

C10_Witness ==
    /\ n = 4
    /\ finished
    /\ Len(solutions) = 2
    /\ ~solutions[1].sym
    /\ solutions[2].sym

\* The board the last log entry describes.
LastEntryBoard ==
    LET p == EntryPerm(solutions[Len(solutions)])
    IN  [r \in Idx |-> [c \in Idx |-> IF p[c + 1] = r THEN 1 ELSE 0]]

AttackedFromLeft(qs, r, c) ==
    \E q \in qs : q[2] < c /\ Attack(q, <<r, c>>)

\* C12: on every reachable board, for every row of the current column,
\* is_safe is true exactly when no queen in an earlier column shares the
\* row or a diagonal with the cell.
C12_IsSafeExact ==
    \A r \in Idx :
        is_safe(board, r, col) <=> ~AttackedFromLeft(Queens(board), r, col)

C12_Witness ==
    /\ col >= 2
    /\ col < n
    /\ \E r \in Idx : is_safe(board, r, col)
    /\ \E r \in Idx :
        /\ ~is_safe(board, r, col)
        /\ \A q \in Queens(board) : q[1] # r /\ q[1] - r # col - q[2]
    /\ \E r \in Idx :
        /\ ~is_safe(board, r, col)
        /\ \A q \in Queens(board) : q[1] # r /\ r - q[1] # col - q[2]

\* The call pops the top of the stack before it goes on.
Popping == ~finished /\ backtracking /\ ~(col = 0 /\ row >= n) /\ stack # <<>>

\* Queens, stack, column and row with which the call reaches the code after
\* the backtrack block.
ScanQueens == IF Popping THEN Queens(board) \ {stack[Len(stack)]} ELSE Queens(board)
ScanStack == IF Popping THEN SubSeq(stack, 1, Len(stack) - 1) ELSE stack
ScanCol == IF Popping THEN col - 1 ELSE col
ScanRow == IF Popping THEN stack[Len(stack)][1] + 1 ELSE row

ReachesScan == ~finished /\ (backtracking => Popping) /\ ScanCol < n

SafeRows == {r \in Idx : r >= ScanRow /\ ~AttackedFromLeft(ScanQueens, r, ScanCol)}

\* C16: a step() call that reaches the forward scan with a safe row at or
\* above the cursor row places a queen on the smallest such row, pushes it,
\* moves to the next column at row 0, records nothing and returns false.
C16_PlacesAtFirstSafeRow ==
    [][(step /\ ReachesScan /\ SafeRows # {}) =>
        \E r \in SafeRows :
            /\ \A q \in SafeRows : r <= q
            /\ Queens(board') = ScanQueens \cup {<<r, ScanCol>>}
            /\ stack' = Append(ScanStack, <<r, ScanCol>>)
            /\ col' = ScanCol + 1
            /\ row' = 0
            /\ solutions' = solutions
            /\ ret' = FALSE
      ]_vars

C16_Witness ==
    /\ n >= MinAppN
    /\ op = "step"
    /\ ~backtracking
    /\ row = 0
    /\ stack = << <<0, 0>>, <<2, 1>> >>

\* C17: a step() call entered in Forward mode with column < N and no safe
\* row at or above the cursor row switches to Backtrack mode, returns false
\* and leaves board, stack, column, log and finished as they were.
C17_NoSafeRowSwitchesToBacktrack ==
    [][(step /\ ~finished /\ ~backtracking /\ col < n /\ SafeRows = {}) =>
        /\ backtracking'
        /\ ret' = FALSE
        /\ UNCHANGED <<board, stack, col, solutions, finished>>
      ]_vars

C17_Witness ==
    /\ n = 4
    /\ op = "step"
    /\ backtracking
    /\ ~finished
    /\ row = 4
    /\ stack = << <<0, 0>>, <<2, 1>> >>

\* The rows on the stack followed by the cursor row: the next candidate.
Frontier == [i \in 1 .. (Len(stack) + 1) |->
                IF i <= Len(stack) THEN stack[i][1] ELSE row]

\* Lexicographic order on sequences, a proper prefix being smaller.
LexLess(a, b) ==
    \E k \in 1 .. Len(b) :
        /\ k <= Len(a) + 1
        /\ \A i \in 1 .. (k - 1) : a[i] = b[i]
        /\ k = Len(a) + 1 \/ a[k] < b[k]

\* C18: a step() call entered in Backtrack mode with a non-empty stack
\* removes exactly the top queen <<r, col - 1>> and resumes that column at
\* row r + 1: a queen it places is in that column on a row above r, over the
\* same earlier columns.  Every call before the end moves the next
\* candidate forward in lexicographic order (or, with the candidate in
\* place, switches from Forward to Backtrack), so no candidate comes twice.
C18_PopResumesAboveRow ==
    [][step =>
        /\ Popping =>
            /\ Removed = {stack[Len(stack)]}
            /\ stack[Len(stack)][2] = col - 1
            /\ \A q \in Placed : q[2] = col - 1 /\ q[1] > stack[Len(stack)][1]
            /\ SubSeq(stack', 1, Len(stack) - 1) = SubSeq(stack, 1, Len(stack) - 1)
            /\ Placed = {} => (stack' = SubSeq(stack, 1, Len(stack) - 1)
                                /\ col' = col - 1
                                /\ row' > stack[Len(stack)][1])
        /\ (~finished /\ ~finished') =>
            \/ LexLess(Frontier, Frontier')
            \/ Frontier' = Frontier /\ ~backtracking /\ backtracking'
      ]_vars

C18_Witness ==
    /\ n = 4
    /\ op = "step"
    /\ ~backtracking
    /\ stack = << <<0, 0>>, <<3, 1>> >>

\* C19: finished becomes true only in a step() call entered in Backtrack
\* mode with column 0 and the cursor row at N or beyond; the stack is then
\* empty, the column 0 and the board without a queen.
C19_FinishedOnlyWhenExhausted ==
    [][(~finished /\ finished') =>
        /\ step
        /\ backtracking
        /\ col = 0
        /\ row >= n
        /\ stack' = <<>>
        /\ col' = 0
        /\ Queens(board') = {}
      ]_vars

C19_Witness ==
    /\ finished
    /\ op = "step"
    /\ n >= MinAppN
    /\ stack = <<>>
    /\ col = 0
    /\ row = n
    /\ board = EmptyBoard(n)
    /\ solutions # <<>>
\* C20: get_variants(sol) of a permutation sol returns 8 vectors, each a
\* permutation of 0..N-1; as a set they are the images of sol under the 8
\* symmetries of the square, and sol is among the variants of each of them.
C20_VariantsAreDihedralImages ==
    variants_out # <<>> =>
        \A vs \in {variants_out[1]} :
            /\ Len(vs) = 8
            /\ \A i \in 1 .. Len(vs) : IsPermutation(vs[i])
            /\ {Cells(vs[i]) : i \in 1 .. Len(vs)} = Orbit(sol_in)
            /\ \A i \in 1 .. Len(vs) :
                \A back \in {get_variants(vs[i])} :
                    \E j \in 1 .. Len(back) : back[j] = sol_in

C20_Witness ==
    /\ variants_out # <<>>
    /\ Len(sol_in) = MaxPermN
    /\ Cardinality({variants_out[1][i] : i \in 1 .. 8}) = 8

----------------------------------------------------------------------------
\* Texts that denote a board size the application accepts: the decimal
\* numeral of a number in 4..30, with an optional plus sign.
DenotesAppSize(t) ==
    \E v \in MinAppN .. MaxAppN : t = to_string(v) \/ t = <<"+">> \o to_string(v)

\* C14: in every reachable application state the engine's n equals the
\* application's n and lies in 4..30; a step that changes the board-size
\* text to one that is non-numeric or outside 4..30, and a press of - at
\* size 4 or of + at size 30, leave the application's n and the whole
\* solver state unchanged.
C14_NoOutOfRangeEngine ==
    /\ [](n = app_n /\ app_n \in MinAppN .. MaxAppN)
    /\ [][/\ (n_input' # n_input /\ ~DenotesAppSize(n_input'))
              => UNCHANGED <<app_n, engine>>
          /\ (MinusButton /\ app_n = MinAppN) => UNCHANGED <<app_n, engine>>
          /\ (PlusButton /\ app_n = MaxAppN) => UNCHANGED <<app_n, engine>>]_vars

\* The size is 30, a search is under way, and the text field holds the
\* rejected entry "31".
C14_Witness ==
    /\ n_input = <<"3", "1">>
    /\ app_n = MaxAppN
    /\ n = MaxAppN
    /\ stack # <<>>
    /\ op = "step"

\* The state SolverWrapper::new leaves for the application's current size.
FreshEngine ==
    /\ n = app_n
    /\ board = EmptyBoard(app_n)
    /\ stack = <<>>
    /\ row = 0
    /\ col = 0
    /\ ~backtracking
    /\ solutions = <<>>
    /\ unique_solutions = <<>>
    /\ last_solution_board = <<>>
    /\ ~finished

\* C15: a step that changes the board size, a press of stop while paused
\* or finished, and a press of play while finished leave the engine in the
\* fresh initial state for the current size.
C15_ResetReplacesEngine ==
    [][(\/ app_n' # app_n
        \/ (StopButton /\ (paused \/ finished))
        \/ (PlayButton /\ finished))
       => FreshEngine']_vars

\* Play was pressed on a finished engine, and now
\* the engine is fresh and the search is not paused.
C15_Witness ==
    /\ op = "new_play"
    /\ FreshEngine
    /\ ~paused

----------------------------------------------------------------------------
\* The log entry e describes the placement p: its k-th part names file k
\* and the rank one above the row p gives column k - 1.
Describes(e, p) ==
    /\ Len(e.parts) = Len(p)
    /\ \A k \in 1 .. Len(p) : e.parts[k] = <<FileChars[k], p[k] + 1>>

\* C21: in every reachable state the solutions log and the unique-solution
\* set have the same length, and the i-th permutation of the set is the
\* placement the i-th log entry describes, whether the entry is tagged as a
\* symmetric duplicate or not.
C21_LogAndUniqueSetAligned ==
    /\ Len(solutions) = Len(unique_solutions)
    /\ \A i \in 1 .. Len(solutions) : Describes(solutions[i], unique_solutions[i])

\* A tagged and an untagged entry have both been recorded.
C21_Witness ==
    /\ n >= MinAppN
    /\ Len(unique_solutions) >= 2
    /\ \E i \in 1 .. Len(solutions) : solutions[i].sym
    /\ \E i \in 1 .. Len(solutions) : ~solutions[i].sym

\* C22: every step() and restore_last_solution() call leaves the log at
\* the same length or one entry longer, and the entries already in the log
\* keep their text, their tag and their position.
C22_LogAppendOnly ==
    [][/\ Len(solutions') \in {Len(solutions), Len(solutions) + 1}
       /\ SubSeq(solutions', 1, Len(solutions)) = solutions]_vars

\* Several entries were recorded and restore_last_solution() has run.
C22_Witness ==
    /\ op = "restore"
    /\ n >= 5
    /\ Len(solutions) >= 3
    /\ solutions[1] # solutions[2]

\* C23: the snapshot is absent exactly when the log is empty, and
\* otherwise it is the board the last log entry describes.
C23_SnapshotIsLastRecorded ==
    /\ (last_solution_board = <<>>) <=> (solutions = <<>>)
    /\ solutions # <<>> => last_solution_board[1] = LastEntryBoard

\* Backtracking has cleared the live board down to one queen while the
\* snapshot holds the last recorded solution.
C23_Witness ==
    /\ n >= MinAppN
    /\ solutions # <<>>
    /\ Len(stack) = 1
    /\ last_solution_board[1] = LastEntryBoard
    /\ Cardinality(Queens(last_solution_board[1])) = n

----------------------------------------------------------------------------
\* C24 as stated: when a frame update of a find-all run (auto_play and
\* finding_all set) takes the engine to finished with at least one solution
\* recorded, at any speed in 1..10, the frame ends with the board showing
\* the last recorded solution.
C24_AsStated ==
    [][(/\ auto_play
        /\ finding_all
        /\ solutions # <<>>
        /\ \/ FrameStep /\ finished'
           \/ Frame10End /\ finished)
       => board' = LastEntryBoard']_vars

\* C25 as stated: a frame update that starts with paused set makes no
\* step() call in its stepping logic, so it leaves the engine as it was.
C25_AsStated ==
    [][(/\ paused
        /\ pc = "idle"
        /\ FrameStep \/ Frame10Iter)
       => UNCHANGED engine]_vars

----------------------------------------------------------------------------
\* C26: the row-permutations are recorded in strictly increasing
\* lexicographic order, rows compared column 0 first; a row-permutation
\* that has just been recorded was not in the unique-solution set before,
\* so none is recorded twice.
C26_RecordedInLexOrder ==
    /\ \A i \in 1 .. (Len(unique_solutions) - 1) :
          LexLess(unique_solutions[i], unique_solutions[i + 1])
    /\ ret => \A i \in 1 .. (Len(unique_solutions) - 1) :
                 unique_solutions[i] # unique_solutions[Len(unique_solutions)]

\* A third solution has just been recorded.
C26_Witness ==
    /\ ret
    /\ op = "step"
    /\ n >= 5
    /\ Len(unique_solutions) >= 3
    /\ unique_solutions[1][1] < unique_solutions[Len(unique_solutions)][1]

----------------------------------------------------------------------------
\* C27: a restore_last_solution() call leaves the placement stack, the
\* cursor row and column, the backtracking and finished flags, the log, the
\* unique-solution set and the snapshot as they were; it leaves the board
\* as it was too when no solution has been recorded.
C27_RestoreChangesOnlyBoard ==
    [][op' = "restore" =>
          /\ UNCHANGED <<n, stack, row, col, backtracking, finished, solutions,
                         unique_solutions, last_solution_board>>
          /\ solutions = <<>> => board' = board]_vars

\* restore_last_solution() has repainted a board that the search had
\* emptied, and the search state is that of the finished engine.
C27_Witness ==
    /\ op = "restore"
    /\ n >= MinAppN
    /\ board # EmptyBoard(n)
    /\ board = last_solution_board[1]
    /\ stack = <<>>
    /\ col = 0
    /\ row = n
    /\ backtracking
    /\ finished

----------------------------------------------------------------------------
\* The arm of step() that pops an empty stack: Backtrack mode, not
\* finished, not at the exhausted cursor, nothing on the stack.
EmptyPopArm == ~finished /\ backtracking /\ ~(col = 0 /\ row >= n) /\ stack = <<>>

\* C28: wherever the fast-forward handler assigns backtracking = true
\* (after its loop has left on a solution or on finished, or with the loop
\* skipped on a finished engine) the flag is already true; Backtrack mode
\* with an empty stack has column 0 and cursor row >= N; the arm of step()
\* that pops an empty stack is never entered.
C28_OnlyStepMutatesSearch ==
    /\ (pc = "ff_end" \/ (pc = "idle" /\ finished)) => backtracking
    /\ (backtracking /\ stack = <<>>) => (col = 0 /\ row >= n)
    /\ ~EmptyPopArm

\* The fast-forward loop has left because the search finished, after
\* solutions were recorded.
C28_Witness ==
    /\ pc = "ff_end"
    /\ finished
    /\ backtracking
    /\ stack = <<>>
    /\ row >= n
    /\ solutions # <<>>

----------------------------------------------------------------------------
\* C29: in every reachable state column and cursor row lie in 0..N; the
\* next step() call reads and writes the board only at indices in 0..N-1
\* (the popped cell, the cells is_safe reads for each row it scans, the
\* cell it places a queen on); the pop arm runs only with column >= 1; and
\* while column = 0 no occupied cell lies on the cursor row, so rendering
\* never evaluates column - 1 at column 0, also after
\* restore_last_solution() on a finished engine.
C29_IndicesInRange ==
    /\ col \in 0 .. n
    /\ row \in 0 .. n
    /\ Popping => /\ col >= 1
                  /\ stack[Len(stack)][1] \in Idx
                  /\ col - 1 \in Idx
    /\ ReachesScan =>
          /\ ScanCol \in Idx
          /\ ScanRow \in 0 .. n
          /\ \A r \in ScanRow .. (n - 1) : is_safe_reads(r, ScanCol) \subseteq Idx \X Idx
    /\ col = 0 => \A rc \in Queens(board) : rc[1] # row

\* restore_last_solution() has repainted a finished engine: the board
\* holds N queens while the column is 0 and the cursor row is N.
C29_Witness ==
    /\ op = "restore"
    /\ finished
    /\ n = 6
    /\ col = 0
    /\ row = n
    /\ Cardinality(Queens(board)) = n

====
